---- MODULE Spec2Model ----
(***************************************************************************)
(* SamlConnector (src/plugin/connector/saml_connector.py): the SAML        *)
(* service-provider connector.  One connector object holds the attribute   *)
(* self.saml_settings; callers run init and authorize on it.               *)
(*                                                                         *)
(* Python values are modelled as follows.  A str that the code formats or  *)
(* passes through is a TLA+ string; a str the code transforms character by *)
(* character (the identity_provider key) is a sequence of one-character    *)
(* strings.  None is the string None (or the key NoneKey).  A call's       *)
(* outcome is a record: Return(v) or Raise(exception class, detail).       *)
(***************************************************************************)
EXTENDS Integers, Sequences, FiniteSets, TLC

\* Number of callers that hold a reference to the one connector.
NumThreads == 2
Threads == 1..NumThreads

None == "<None>"
NoneKey == <<"<None>">>
Absent == "<absent>"

Return(v) == [kind |-> "return", value |-> v]
Raise(e, d) == [kind |-> "raise", error |-> e, detail |-> d]

\* No outcome: the step has not run in this call.
NotRun == [kind |-> "none"]

Returned(r) == r.kind = "return"
Raised(r, e) == r.kind = "raise" /\ r.error = e

---------------------------------------------------------------------------
(* str.capitalize and the provider table of _get_idp_name                  *)

LowerChars == <<"a","b","c","d","e","f","g","h","i","j","k","l","m","n","o","p","q","r","s","t","u","v","w","x","y","z">>
UpperChars == <<"A","B","C","D","E","F","G","H","I","J","K","L","M","N","O","P","Q","R","S","T","U","V","W","X","Y","Z">>

upper(c) ==
    IF \E i \in 1..Len(LowerChars) : LowerChars[i] = c
    THEN UpperChars[CHOOSE i \in 1..Len(LowerChars) : LowerChars[i] = c]
    ELSE c

lower(c) ==
    IF \E i \in 1..Len(UpperChars) : UpperChars[i] = c
    THEN LowerChars[CHOOSE i \in 1..Len(UpperChars) : UpperChars[i] = c]
    ELSE c

\* str.capitalize(): first character upper-cased, every other one lower-cased.
\* On None the attribute lookup raises AttributeError.
capitalize(s) ==
    IF s = NoneKey THEN Raise("AttributeError", "capitalize")
    ELSE Return([i \in 1..Len(s) |-> IF i = 1 THEN upper(s[i]) ELSE lower(s[i])])

K_okta == <<"o","k","t","a">>
K_frontegg == <<"f","r","o","n","t","e","g","g">>
K_auth0 == <<"a","u","t","h","0">>
K_one_login == <<"o","n","e","_","l","o","g","i","n">>
K_pops == <<"p","o","p","s">>
K_ping_identity == <<"p","i","n","g","_","i","d","e","n","t","i","t","y">>
K_workos == <<"w","o","r","k","o","s">>
K_keycloak == <<"k","e","y","c","l","o","a","k">>
K_microsoft_entra_id == <<"m","i","c","r","o","s","o","f","t","_","e","n","t","r","a","_","i","d">>

KnownKeys ==
    {K_okta, K_frontegg, K_auth0, K_one_login, K_pops, K_ping_identity,
     K_workos, K_keycloak, K_microsoft_entra_id}

\* The dict literal of _get_idp_name, applied to one of its keys.
idp_name_table(key) ==
    IF key = K_okta THEN <<"O","k","t","a">> ELSE
    IF key = K_frontegg THEN <<"F","r","o","n","t","e","g","g">> ELSE
    IF key = K_auth0 THEN <<"A","u","t","h","0">> ELSE
    IF key = K_one_login THEN <<"O","n","e","L","o","g","i","n">> ELSE
    IF key = K_pops THEN <<"M","e","g","a","z","o","n","e"," ","P","o","P","s">> ELSE
    IF key = K_ping_identity THEN <<"P","i","n","g"," ","I","d","e","n","t","i","t","y">> ELSE
    IF key = K_workos THEN <<"W","o","r","k","O","S">> ELSE
    IF key = K_keycloak THEN <<"K","e","y","c","l","o","a","k">> ELSE
    <<"M","i","c","r","o","s","o","f","t"," ","E","n","t","r","a"," ","I","D">>

\* idp_name.get(identity_provider, identity_provider.capitalize()): the default
\* argument is evaluated before the lookup, also for a key the table holds.
_get_idp_name(identity_provider) ==
    LET default == capitalize(identity_provider)
    IN  IF ~Returned(default) THEN default
        ELSE IF identity_provider \in KnownKeys
             THEN Return(idp_name_table(identity_provider))
             ELSE default

---------------------------------------------------------------------------
(* The metadata endpoints a caller may name, and requests.get on each      *)

U_ok == "https://idp.example.com/metadata"
U_no_sso == "https://idp.example.com/metadata-no-sso"
U_sso_no_location == "https://idp.example.com/metadata-sso-no-location"
U_no_cert == "https://idp.example.com/metadata-no-cert"
U_empty_cert == "https://idp.example.com/metadata-empty-cert"
U_no_entity == "https://idp.example.com/metadata-no-entity-id"
U_malformed == "https://idp.example.com/not-xml"
U_404 == "https://idp.example.com/gone"
U_unreachable == "https://down.example.com/metadata"

MetadataUrls ==
    {U_ok, U_no_sso, U_sso_no_location, U_no_cert, U_empty_cert, U_no_entity,
     U_malformed, U_404, U_unreachable}

\* An XML document as _parse_idp_xml sees it: whether it parses at all, the
\* root's entityID attribute, the first ds:X509Certificate element and its text
\* (None for an empty element), the first md:SingleSignOnService element and
\* its Location attribute.
Xml(wf, eid, hasCert, certText, hasSso, loc) ==
    [wellformed |-> wf, entityID |-> eid, hasCert |-> hasCert, certText |-> certText,
     hasSso |-> hasSso, location |-> loc]

IdpEntity == "https://idp.example.com/entity"
IdpCert == "MIICertBody"
IdpSso == "https://idp.example.com/sso"

NotXml == Xml(FALSE, Absent, FALSE, None, FALSE, Absent)

Document(url) ==
    IF url = U_ok THEN Xml(TRUE, IdpEntity, TRUE, IdpCert, TRUE, IdpSso) ELSE
    IF url = U_no_sso THEN Xml(TRUE, IdpEntity, TRUE, IdpCert, FALSE, Absent) ELSE
    IF url = U_sso_no_location THEN Xml(TRUE, IdpEntity, TRUE, IdpCert, TRUE, Absent) ELSE
    IF url = U_no_cert THEN Xml(TRUE, IdpEntity, FALSE, None, TRUE, IdpSso) ELSE
    IF url = U_empty_cert THEN Xml(TRUE, IdpEntity, TRUE, None, TRUE, IdpSso) ELSE
    IF url = U_no_entity THEN Xml(TRUE, Absent, TRUE, IdpCert, TRUE, IdpSso) ELSE
    NotXml

\* requests.get(url): a response with a status and a body, or an exception
\* raised by the transport (no URL at all, or no connection).
HttpGet(url) ==
    IF url = None THEN [exc |-> "MissingSchema", status |-> 0, content |-> NotXml]
    ELSE IF url = U_unreachable THEN [exc |-> "ConnectionError", status |-> 0, content |-> NotXml]
    ELSE IF url = U_404 THEN [exc |-> "", status |-> 404, content |-> NotXml]
    ELSE [exc |-> "", status |-> 200, content |-> Document(url)]

\* response.raise_for_status() raises HTTPError on a 4xx or 5xx status.
raise_for_status(response) == response.status >= 400

_fetch_xml_ignoring_status(metadata_url) ==
    LET response == HttpGet(metadata_url)
    IN  IF response.exc # "" THEN Raise("ERROR_NOT_FOUND", response.exc)
        ELSE Return(response.content)

_fetch_xml(metadata_url) ==
    LET response == HttpGet(metadata_url)
    IN  IF response.exc # "" THEN Raise("ERROR_NOT_FOUND", response.exc)
        ELSE IF raise_for_status(response) THEN Raise("ERROR_NOT_FOUND", "HTTPError")
        ELSE Return(response.content)

\* _parse_idp_xml: no exception is caught here, each propagates as raised.
_parse_idp_xml(xml_data) ==
    IF ~xml_data.wellformed THEN Raise("ParseError", "fromstring")
    ELSE IF xml_data.entityID = Absent THEN Raise("KeyError", "entityID")
    ELSE IF ~xml_data.hasCert THEN Raise("AttributeError", "text")
    ELSE IF xml_data.hasSso /\ xml_data.location = Absent THEN Raise("KeyError", "Location")
    ELSE Return([entity_id |-> xml_data.entityID,
                 x509_certificate |-> xml_data.certText,
                 sso_url |-> IF xml_data.hasSso THEN xml_data.location ELSE None])

---------------------------------------------------------------------------
(* _set_saml_settings                                                      *)

\* An f-string renders None as the text None.
format(v) == IF v = None THEN "None" ELSE v

HTTP_REDIRECT == "urn:oasis:names:tc:SAML:2.0:bindings:HTTP-Redirect"
HTTP_POST == "urn:oasis:names:tc:SAML:2.0:bindings:HTTP-POST"

\* self.saml_settings = {} of __init__.
EmptySettings == [empty |-> TRUE]

Security(signed, nameId, attrs) ==
    [wantAssertionsSigned |-> signed, wantNameId |-> nameId, wantAttributeStatement |-> attrs]

Settings(idpEntity, ssoUrl, cert, spEntity, acsUrl, security) ==
    [strict |-> TRUE,
     debug |-> TRUE,
     idp |-> [entityId |-> idpEntity,
              singleSignOnService |-> [url |-> ssoUrl, binding |-> HTTP_REDIRECT],
              x509cert |-> cert],
     sp |-> [entityId |-> spEntity,
             assertionConsumerService |-> [url |-> acsUrl, binding |-> HTTP_POST]],
     security |-> security]

acs_url(http_host, domain_id) ==
    "https://" \o format(http_host) \o "/console-api/extension/auth/saml/" \o format(domain_id)

build_settings_sp_from_idp(idp, http_host, domain_id) ==
    Settings(idp.entity_id, idp.sso_url, idp.x509_certificate,
             idp.entity_id, acs_url(http_host, domain_id),
             Security(TRUE, TRUE, FALSE))

\* The dict literal assigned to self.saml_settings.
build_settings(idp, http_host, domain_id) ==
    Settings(idp.entity_id, idp.sso_url, idp.x509_certificate,
             domain_id, acs_url(http_host, domain_id),
             Security(TRUE, TRUE, FALSE))

_set_saml_settings_swallowing(self, params, metadata_url, domain_id) ==
    LET xml == _fetch_xml(metadata_url)
        idp == _parse_idp_xml(xml.value)
    IN  IF ~Returned(xml)
        THEN [result |-> Return(None), self |-> self, parsed |-> NotRun,
              steps |-> <<"_fetch_xml">>]
        ELSE IF ~Returned(idp)
        THEN [result |-> Return(None), self |-> self, parsed |-> idp,
              steps |-> <<"_fetch_xml", "_parse_idp_xml">>]
        ELSE [result |-> Return(None),
              self |-> build_settings(idp.value, params.http_host, domain_id),
              parsed |-> idp,
              steps |-> <<"_fetch_xml", "_parse_idp_xml">>]

\* The method as a function of the connector's attribute and the arguments:
\* what it raises (or Return(None)), the attribute afterwards, the outcome of
\* the parse, and the collaborators it called, in order.
_set_saml_settings(self, params, metadata_url, domain_id) ==
    LET xml == _fetch_xml(metadata_url)
        idp == _parse_idp_xml(xml.value)
    IN  IF ~Returned(xml)
        THEN [result |-> xml, self |-> self, parsed |-> NotRun, steps |-> <<"_fetch_xml">>]
        ELSE IF ~Returned(idp)
        THEN [result |-> idp, self |-> self, parsed |-> idp,
              steps |-> <<"_fetch_xml", "_parse_idp_xml">>]
        ELSE [result |-> Return(None),
              self |-> build_settings(idp.value, params.http_host, domain_id),
              parsed |-> idp,
              steps |-> <<"_fetch_xml", "_parse_idp_xml">>]

---------------------------------------------------------------------------
(* init                                                                    *)

init_storing_settings(self, options) ==
    LET xml == _fetch_xml(options.metadata_url)
        idp == _parse_idp_xml(xml.value)
    IN  IF ~Returned(xml)
        THEN [result |-> xml, self |-> self, parsed |-> NotRun, steps |-> <<"_fetch_xml">>]
        ELSE IF ~Returned(idp)
        THEN [result |-> idp, self |-> self, parsed |-> idp,
              steps |-> <<"_fetch_xml", "_parse_idp_xml">>]
        ELSE [result |-> Return(None),
              self |-> build_settings(idp.value, None, None),
              parsed |-> idp,
              steps |-> <<"_fetch_xml", "_parse_idp_xml">>]

\* options.get(key) is None, and options.get("protocol", "saml") is "saml", for
\* a key the caller did not supply: such a key holds None (NoneKey) here.
init(self, options) ==
    LET protocol == IF options.protocol = None THEN "saml" ELSE options.protocol
        identity_provider == options.identity_provider
        icon == options.icon
        metadata_url == options.metadata_url
        xml == _fetch_xml(metadata_url)
        idp == _parse_idp_xml(xml.value)
        idp_name == _get_idp_name(identity_provider)
    IN  IF ~Returned(xml)
        THEN [result |-> xml, self |-> self, parsed |-> NotRun, steps |-> <<"_fetch_xml">>]
        ELSE IF ~Returned(idp)
        THEN [result |-> idp, self |-> self, parsed |-> idp,
              steps |-> <<"_fetch_xml", "_parse_idp_xml">>]
        ELSE IF ~Returned(idp_name)
        THEN [result |-> idp_name, self |-> self, parsed |-> idp,
              steps |-> <<"_fetch_xml", "_parse_idp_xml", "_get_idp_name">>]
        ELSE [result |-> Return([identity_provider |-> identity_provider,
                                 protocol |-> protocol,
                                 icon |-> icon,
                                 idp_name |-> idp_name.value,
                                 sso_url |-> idp.value.sso_url]),
              self |-> self,
              parsed |-> idp,
              steps |-> <<"_fetch_xml", "_parse_idp_xml", "_get_idp_name">>]

---------------------------------------------------------------------------
(* The SAML engine, OneLogin_Saml2_Auth, as authorize uses it              *)

NameIds == {"user@example.com"}
EngineErrors == {<<>>, <<"invalid_response">>}

\* The constructor and process_response either raise (settings the engine
\* refuses, a request without a SAMLResponse) or leave an error list and an
\* authenticated flag; which, is the engine's and the IdP's doing.
ProcessOutcomes ==
    {Raise("OneLogin_Saml2_Error", "engine")}
    \cup {Return([errors |-> e, authenticated |-> a]) : e \in EngineErrors, a \in BOOLEAN}

\* auth.get_nameid() on an accepted response: the NameID, or an exception; with
\* wantNameId the engine accepts no response that lacks a NameID, without it
\* get_nameid() may be None.
NameIdOutcomes(settings) ==
    {Return(n) : n \in NameIds}
    \cup {Raise("Exception", "get_nameid")}
    \cup (IF settings.security.wantNameId THEN {} ELSE {Return(None)})

_get_user_info_uncaught(name_id) ==
    IF Returned(name_id) THEN Return([user_id |-> name_id.value])
    ELSE name_id

\* try: {"user_id": auth.get_nameid()}  except Exception: raise ERROR_NOT_FOUND
_get_user_info_from_auth(name_id) ==
    IF Returned(name_id) THEN Return([user_id |-> name_id.value])
    ELSE Raise("ERROR_NOT_FOUND", name_id.detail)

accepts_without_authenticated(errors, authenticated) == errors = <<>>

\* Line 75 of authorize: not errors and auth.is_authenticated().
authorize_accepts(errors, authenticated) == errors = <<>> /\ authenticated

\* Lines 74-84 of authorize: the user on an accepted response, else
\* ERROR_AUTHENTICATE_FAILURE with the error list in its message.
authorize_check(errors, authenticated, name_id) ==
    IF authorize_accepts(errors, authenticated)
    THEN _get_user_info_from_auth(name_id)
    ELSE Raise("ERROR_AUTHENTICATE_FAILURE", errors)

---------------------------------------------------------------------------
(* The connector and its callers                                           *)

VARIABLES
    saml_settings,  \* self.saml_settings
    pc,             \* per caller: "idle", "built", "processed", "done"
    call,           \* per caller: the method and arguments of its call
    parsed,         \* per caller: what _parse_idp_xml gave this call
    auth,           \* per caller: the engine object of this call
    result,         \* per caller: what the call returned or raised
    steps           \* per caller: the collaborators this call invoked, in order

vars == <<saml_settings, pc, call, parsed, auth, result, steps>>

Keys ==
    KnownKeys
    \cup {<<"u","n","k","n","o","w","n","_","k","e","y">>,
          <<"m","y","I","d","P">>,
          <<"O","k","t","a">>,
          <<>>}

Options ==
    [protocol : {None, "saml"},
     identity_provider : Keys \cup {NoneKey},
     icon : {None},
     metadata_url : MetadataUrls \cup {None}]

\* params.get("http_host") is None when the request carries no host.
HttpHosts == {"app.example.com", "console.example.org", None}
DomainIds == {"domain-123", "domain-456"}

NoCall == [op |-> "none"]
NoAuth == [built |-> FALSE]

Init ==
    /\ saml_settings = EmptySettings
    /\ pc = [t \in Threads |-> "idle"]
    /\ call = [t \in Threads |-> NoCall]
    /\ parsed = [t \in Threads |-> NotRun]
    /\ auth = [t \in Threads |-> NoAuth]
    /\ result = [t \in Threads |-> NotRun]
    /\ steps = [t \in Threads |-> <<>>]

\* init(options), start to end.
InitCall(t, optionSet) ==
    /\ pc[t] = "idle"
    /\ \E options \in optionSet :
         LET r == init(saml_settings, options)
         IN  /\ call' = [call EXCEPT ![t] = [op |-> "init", options |-> options]]
             /\ saml_settings' = r.self
             /\ parsed' = [parsed EXCEPT ![t] = r.parsed]
             /\ result' = [result EXCEPT ![t] = r.result]
             /\ steps' = [steps EXCEPT ![t] = r.steps]
    /\ pc' = [pc EXCEPT ![t] = "done"]
    /\ UNCHANGED auth

\* authorize, line 66: self._set_saml_settings(params, metadata_url, domain_id).
AuthorizeBuild(t, urls) ==
    /\ pc[t] = "idle"
    /\ \E http_host \in HttpHosts, metadata_url \in urls, domain_id \in DomainIds :
         LET params == [http_host |-> http_host]
             r == _set_saml_settings(saml_settings, params, metadata_url, domain_id)
         IN  /\ call' = [call EXCEPT ![t] = [op |-> "authorize", params |-> params,
                                             metadata_url |-> metadata_url,
                                             domain_id |-> domain_id]]
             /\ saml_settings' = r.self
             /\ parsed' = [parsed EXCEPT ![t] = r.parsed]
             /\ steps' = [steps EXCEPT ![t] = r.steps]
             /\ IF Returned(r.result)
                THEN /\ pc' = [pc EXCEPT ![t] = "built"]
                     /\ UNCHANGED result
                ELSE /\ pc' = [pc EXCEPT ![t] = "done"]
                     /\ result' = [result EXCEPT ![t] = r.result]
    /\ UNCHANGED auth

\* authorize, lines 68-72: the engine is built from self.saml_settings as it is
\* now, and processes the response.
AuthorizeProcess(t) ==
    /\ pc[t] = "built"
    /\ \E o \in ProcessOutcomes :
         IF Returned(o)
         THEN /\ auth' = [auth EXCEPT ![t] = [built |-> TRUE,
                                              settings |-> saml_settings,
                                              errors |-> o.value.errors,
                                              authenticated |-> o.value.authenticated,
                                              name_id |-> NotRun]]
              /\ steps' = [steps EXCEPT ![t] = @ \o <<"OneLogin_Saml2_Auth", "process_response">>]
              /\ pc' = [pc EXCEPT ![t] = "processed"]
              /\ UNCHANGED result
         ELSE /\ steps' = [steps EXCEPT ![t] = @ \o <<"OneLogin_Saml2_Auth">>]
              /\ result' = [result EXCEPT ![t] = o]
              /\ pc' = [pc EXCEPT ![t] = "done"]
              /\ UNCHANGED auth
    /\ UNCHANGED <<saml_settings, call, parsed>>

\* authorize, lines 74-84.
AuthorizeFinish(t) ==
    /\ pc[t] = "processed"
    /\ \E name_id \in NameIdOutcomes(auth[t].settings) :
         LET accepted == authorize_accepts(auth[t].errors, auth[t].authenticated)
         IN  /\ result' = [result EXCEPT ![t] =
                             authorize_check(auth[t].errors, auth[t].authenticated, name_id)]
             /\ auth' = [auth EXCEPT ![t].name_id = IF accepted THEN name_id ELSE NotRun]
             /\ steps' = [steps EXCEPT ![t] =
                             IF accepted THEN @ \o <<"get_nameid">> ELSE @]
    /\ pc' = [pc EXCEPT ![t] = "done"]
    /\ UNCHANGED <<saml_settings, call, parsed>>

\* The call's outcome reaches the caller; its locals are gone.
Finish(t) ==
    /\ pc[t] = "done"
    /\ pc' = [pc EXCEPT ![t] = "idle"]
    /\ call' = [call EXCEPT ![t] = NoCall]
    /\ parsed' = [parsed EXCEPT ![t] = NotRun]
    /\ auth' = [auth EXCEPT ![t] = NoAuth]
    /\ result' = [result EXCEPT ![t] = NotRun]
    /\ steps' = [steps EXCEPT ![t] = <<>>]
    /\ UNCHANGED saml_settings

\* No other caller is inside a method.
Alone(t) == \A u \in Threads \ {t} : pc[u] = "idle"

\* The request/response model of the service: one call at a time, each
\* complete before the next begins; self.saml_settings outlives every call.
Next ==
    \E t \in Threads :
        \/ Alone(t) /\ InitCall(t, Options)
        \/ Alone(t) /\ AuthorizeBuild(t, MetadataUrls)
        \/ Alone(t) /\ AuthorizeProcess(t)
        \/ Alone(t) /\ AuthorizeFinish(t)
        \/ Alone(t) /\ Finish(t)

Spec == Init /\ [][Next]_vars

\* Callers on several threads share the connector and run in any interleaving.
ConcUrls == {U_ok, U_no_sso, U_404}

ConcOptions ==
    [protocol : {None}, identity_provider : {K_okta}, icon : {None},
     metadata_url : {U_ok, U_404}]

ConcNext ==
    \E t \in Threads :
        \/ InitCall(t, ConcOptions)
        \/ AuthorizeBuild(t, ConcUrls)
        \/ AuthorizeProcess(t)
        \/ AuthorizeFinish(t)
        \/ Finish(t)

ConcSpec == Init /\ [][ConcNext]_vars

---------------------------------------------------------------------------
(* Properties                                                              *)

Done(t) == pc[t] = "done"
IsInit(t) == call[t].op = "init"
IsAuthorize(t) == call[t].op = "authorize"
UrlOf(t) == IF IsInit(t) THEN call[t].options.metadata_url ELSE call[t].metadata_url

\* The GET of the URL gives no 2xx response: the transport raised, or the
\* status is an error status.
FetchFails(url) == HttpGet(url).exc # "" \/ HttpGet(url).status \notin 200..299

Count(seq, x) == Cardinality({i \in 1..Len(seq) : seq[i] = x})

\* C1: authorize returns {user_id: NameID} only when the engine reported no
\* error and an authenticated principal; when the engine reports an error or
\* no authentication, authorize raises ERROR_AUTHENTICATE_FAILURE carrying the
\* engine's error list and returns nothing.
C1_ReturnOnlyWhenAccepted ==
    \A t \in Threads :
        Done(t) /\ IsAuthorize(t) =>
            /\ Returned(result[t]) =>
                 /\ auth[t] # NoAuth
                 /\ auth[t].errors = <<>>
                 /\ auth[t].authenticated
                 /\ Returned(auth[t].name_id)
                 /\ result[t].value = [user_id |-> auth[t].name_id.value]
            /\ (auth[t] # NoAuth /\ (auth[t].errors # <<>> \/ ~auth[t].authenticated)) =>
                 /\ Raised(result[t], "ERROR_AUTHENTICATE_FAILURE")
                 /\ result[t].detail = auth[t].errors

C1_Witness ==
    \E t \in Threads :
        /\ Done(t) /\ IsAuthorize(t)
        /\ auth[t] # NoAuth /\ auth[t].errors = <<>> /\ auth[t].authenticated
        /\ result[t] = Return([user_id |-> "user@example.com"])

\* C2: when the metadata fetch fails (error status or transport error), init
\* and authorize both raise ERROR_NOT_FOUND and nothing else, and authorize
\* never builds or runs the engine.
C2_FetchFailureIsNotFound ==
    \A t \in Threads :
        Done(t) /\ FetchFails(UrlOf(t)) =>
            /\ Raised(result[t], "ERROR_NOT_FOUND")
            /\ auth[t] = NoAuth
            /\ steps[t] = <<"_fetch_xml">>

C2_Witness ==
    \E t \in Threads :
        /\ Done(t) /\ IsAuthorize(t) /\ call[t].metadata_url = U_404
        /\ Raised(result[t], "ERROR_NOT_FOUND")

\* C3: when the metadata is fetched but cannot be parsed into its required
\* fields, init and authorize raise ERROR_NOT_FOUND, as for a fetch failure.
C3_ParseFailureIsNotFound ==
    \A t \in Threads :
        Done(t) /\ parsed[t] # NotRun /\ ~Returned(parsed[t]) =>
            Raised(result[t], "ERROR_NOT_FOUND")

\* C4: in any interleaving of authorize calls on one connector, the settings
\* the engine of a call is built with are those built from that call's own
\* domain_id, http_host and fetched metadata.
C4_EngineGetsOwnSettings ==
    \A t \in Threads :
        auth[t] # NoAuth =>
            auth[t].settings =
                build_settings(parsed[t].value, call[t].params.http_host, call[t].domain_id)

\* C5: whenever the engine is built in an authorize call, after any sequence
\* of earlier calls, sp.entityId is the call's domain_id, the ACS URL is
\* https://{http_host}/console-api/extension/auth/saml/{domain_id}, strict is
\* true, the bindings are HTTP-Redirect (IdP SSO) and HTTP-POST (ACS), and
\* signed assertions and a NameID are required, an attribute statement not.
C5_SettingsOfTheCall ==
    \A t \in Threads :
        auth[t] # NoAuth =>
            LET s == auth[t].settings
                host == call[t].params.http_host
            IN  /\ s # EmptySettings
                /\ s.sp.entityId = call[t].domain_id
                /\ host # None =>
                     s.sp.assertionConsumerService.url =
                         "https://" \o host \o "/console-api/extension/auth/saml/"
                                    \o call[t].domain_id
                /\ s.strict = TRUE
                /\ s.idp.singleSignOnService.binding
                     = "urn:oasis:names:tc:SAML:2.0:bindings:HTTP-Redirect"
                /\ s.sp.assertionConsumerService.binding
                     = "urn:oasis:names:tc:SAML:2.0:bindings:HTTP-POST"
                /\ s.security.wantAssertionsSigned = TRUE
                /\ s.security.wantNameId = TRUE
                /\ s.security.wantAttributeStatement = FALSE

C5_Witness ==
    \E t \in Threads :
        /\ pc[t] = "processed"
        /\ call[t].domain_id = "domain-123"
        /\ call[t].params.http_host = "app.example.com"
        /\ auth[t].settings.sp.entityId = "domain-123"
        /\ auth[t].settings.sp.assertionConsumerService.url
             = "https://app.example.com/console-api/extension/auth/saml/domain-123"

C7_ParseDecidedByRequiredFields ==
    \A t \in Threads :
        LET d == Document(UrlOf(t))
        IN  (parsed[t] # NotRun /\ d.wellformed /\ d.entityID # Absent) =>
                /\ Returned(parsed[t]) <=> (d.hasCert /\ d.certText # None)
                /\ (~d.hasSso /\ Returned(parsed[t])) => parsed[t].value.sso_url = None
                /\ Returned(parsed[t]) => parsed[t].value.x509_certificate # None

\* C8: the display-name lookup never fails; a known key gives its fixed name
\* (okta -> Okta, pops -> Megazone PoPs), any other key, the one of an init
\* without identity_provider included, gives the key with its first letter
\* capitalized and the rest unchanged.
C8_DisplayNameTotal ==
    \A t \in Threads :
        (Done(t) /\ IsInit(t) /\ Count(steps[t], "_get_idp_name") > 0) =>
            LET key == call[t].options.identity_provider
            IN  /\ Returned(result[t])
                /\ key = <<"o","k","t","a">> => result[t].value.idp_name = <<"O","k","t","a">>
                /\ key = <<"p","o","p","s">> =>
                     result[t].value.idp_name
                       = <<"M","e","g","a","z","o","n","e"," ","P","o","P","s">>
                /\ key \notin KnownKeys =>
                     result[t].value.idp_name
                       = [i \in 1..Len(key) |-> IF i = 1 THEN upper(key[i]) ELSE key[i]]

\* C9: a call of init fetches once and parses what it fetched once, never
\* builds the engine, and leaves self.saml_settings as it was, whether it
\* returns or raises.
C9_InitLeavesConnectorAlone ==
    [][\A t \in Threads :
          (pc[t] = "idle" /\ pc'[t] = "done" /\ call'[t].op = "init") =>
              /\ saml_settings' = saml_settings
              /\ auth'[t] = NoAuth
              /\ Count(steps'[t], "_fetch_xml") = 1
              /\ Count(steps'[t], "_parse_idp_xml")
                   = (IF FetchFails(call'[t].options.metadata_url) THEN 0 ELSE 1)
              /\ Count(steps'[t], "OneLogin_Saml2_Auth") = 0
              /\ Count(steps'[t], "process_response") = 0]_vars

C9_Witness ==
    \E t \in Threads :
        /\ Done(t) /\ IsInit(t)
        /\ Returned(result[t])
        /\ saml_settings # EmptySettings

Authenticated(t) ==
    /\ Returned(result[t])
    /\ auth[t].errors = <<>> /\ auth[t].authenticated
    /\ auth[t].name_id.kind = "return"

Rejected(t) ==
    /\ Raised(result[t], "ERROR_AUTHENTICATE_FAILURE")
    /\ auth[t].errors # <<>> \/ ~auth[t].authenticated

SubjectNotFound(t) ==
    /\ Raised(result[t], "ERROR_NOT_FOUND")
    /\ auth[t].errors = <<>> /\ auth[t].authenticated
    /\ auth[t].name_id.kind = "raise"

\* C10 as stated: every authorize call that reaches Processed ends either
\* Authenticated (returns the user) or Rejected (ERROR_AUTHENTICATE_FAILURE).
C10_TwoTerminalStates ==
    \A t \in Threads :
        (Done(t) /\ auth[t] # NoAuth) =>
            Returned(result[t]) \/ Raised(result[t], "ERROR_AUTHENTICATE_FAILURE")

\* C10, amended: the engine processes the response only after this call's
\* settings are built; a call has no result before it ends and calls each
\* collaborator at most once; a call that reached Processed ends in exactly
\* one of Authenticated, Rejected, or ERROR_NOT_FOUND when get_nameid() raised
\* on an accepted response; and the engine's settings are this call's own.
C10_ThreeTerminalStates ==
    \A t \in Threads :
        /\ auth[t] # NoAuth =>
             /\ IsAuthorize(t) /\ Returned(parsed[t])
             /\ SubSeq(steps[t], 1, 4)
                  = <<"_fetch_xml", "_parse_idp_xml", "OneLogin_Saml2_Auth", "process_response">>
             /\ auth[t].settings.sp.entityId = call[t].domain_id
             /\ auth[t].settings.idp.entityId = parsed[t].value.entity_id
             /\ auth[t].settings.idp.x509cert = parsed[t].value.x509_certificate
        /\ pc[t] \in {"built", "processed"} => result[t] = NotRun
        /\ \A i, j \in 1..Len(steps[t]) : steps[t][i] = steps[t][j] => i = j
        /\ (Done(t) /\ auth[t] # NoAuth) =>
             /\ Authenticated(t) \/ Rejected(t) \/ SubjectNotFound(t)
             /\ ~(Authenticated(t) /\ Rejected(t))
             /\ ~(Authenticated(t) /\ SubjectNotFound(t))
             /\ ~(Rejected(t) /\ SubjectNotFound(t))

C10_Witness ==
    \E t \in Threads :
        /\ Done(t) /\ auth[t] # NoAuth /\ SubjectNotFound(t)
        /\ steps[t] = <<"_fetch_xml", "_parse_idp_xml", "OneLogin_Saml2_Auth",
                        "process_response", "get_nameid">>

====
